---------------------------- MODULE Spec2Model ----------------------------
(***************************************************************************)
(* A model of the advisor-portfolio demo: the in-memory portfolio/trade    *)
(* API (app/models.py, app/routes.py) and the teardown script              *)
(* (scripts/teardown.py).                                                  *)
(*                                                                         *)
(*   Spec          the API with every handler run as one atomic step       *)
(*   SpecConc      trade creation run by several workers, one bytecode-    *)
(*                 level step of the store update at a time                *)
(*   SpecTeardown  the teardown script against the three external services *)
(*                                                                         *)
(* Units: money is kept in cents and a trade quantity in thousandths, so   *)
(* that round(x, 2) is a real rounding; timestamps are clock readings.     *)
(***************************************************************************)
EXTENDS Integers, Sequences, FiniteSets, TLC

VARIABLES
    portfolios,   \* models._portfolios: insertion-ordered dict, a sequence of [key, val]
    trades,       \* models._trades: portfolio id -> list of Trade
    now,          \* the wall clock read by datetime.now(timezone.utc)
    uuids,        \* how many uuid4 values have been drawn (each one is fresh)
    strhash,      \* the process's salted str hash, fixed at process start
    request,      \* the last request handled
    response,     \* the response returned for it
    writes,       \* how many requests have changed a store
    workers,      \* SpecConc: each worker's position in initiate_trade and its locals
    tdArgs,       \* teardown: the parsed command line and result file
    tdPc,         \* teardown: position in main / teardown_* of the current run
    cloud,        \* teardown: what exists at the three external services
    calls,        \* teardown: the external calls issued in the current run, in order
    logs,         \* teardown: the log records written in the current run, in order
    run,          \* teardown: "first" or "second" run of the script
    faults,       \* teardown: how many calls were answered with an error unrelated to existence
    locals        \* teardown: workspace_id and the loop variables of teardown_aws

apiVars == <<portfolios, trades, now, uuids, strhash, request, response, writes>>
tdVars == <<tdArgs, tdPc, cloud, calls, logs, run, faults, locals>>
vars == <<apiVars, workers, tdVars>>

-----------------------------------------------------------------------------
(* Bounds of the model *)

MaxWrites == 3

(* Program constants *)

DefaultLimit == 20
MaxLimit == 100
MinLimit == 1
PriceBase == 150
PriceBand == 200
MaxNameLen == 255
MaxTickerLen == 10

OBJECTIVES == {"growth", "income", "balanced", "preservation", "aggressive-growth"}
RISK_LEVELS == {"conservative", "moderate", "aggressive"}
PORTFOLIO_STATUSES == {"active", "suspended", "closed", "pending-review"}
INSTRUMENT_TYPES == {"equity", "fixed-income", "etf", "mutual-fund", "option"}
TRADE_SIDES == {"buy", "sell"}
ORDER_TYPES == {"market", "limit", "stop", "stop-limit"}

-----------------------------------------------------------------------------
(* Python built-ins used by the handlers *)

Max(a, b) == IF a >= b THEN a ELSE b
Min(a, b) == IF a <= b THEN a ELSE b

\* round(n / d) to the nearest integer, ties to even, as Python's round does
RoundDiv(n, d) ==
    LET q == n \div d
        r == n % d
    IN  IF 2 * r < d THEN q
        ELSE IF 2 * r > d THEN q + 1
        ELSE IF q % 2 = 0 THEN q ELSE q + 1

\* seq[start:stop] with Python's treatment of negative and out-of-range indices
PySlice(seq, start, stop) ==
    LET n == Len(seq)
        norm(i) == IF i < 0 THEN Max(i + n, 0) ELSE Min(i, n)
    IN  SubSeq(seq, norm(start) + 1, norm(stop))

\* x, a [k, v] pair, put into a sequence of pairs sorted by k descending so that
\* it follows every pair whose key is >= its own (a stable sort)
RECURSIVE InsertDesc(_, _)
InsertDesc(sorted, x) ==
    IF sorted = <<>> THEN <<x>>
    ELSE IF Head(sorted).k >= x.k
         THEN <<Head(sorted)>> \o InsertDesc(Tail(sorted), x)
         ELSE <<x>> \o sorted

RECURSIVE SortPairsDesc(_)
SortPairsDesc(pairs) ==
    IF pairs = <<>> THEN <<>>
    ELSE InsertDesc(SortPairsDesc(SubSeq(pairs, 1, Len(pairs) - 1)), pairs[Len(pairs)])

\* sorted(seq, key=..., reverse=True), keys[i] being the key of seq[i]
SortedDesc(seq, keys) ==
    LET s == SortPairsDesc([i \in DOMAIN seq |-> [k |-> keys[i], v |-> seq[i]]])
    IN  [i \in DOMAIN s |-> s[i].v]

\* len() of the strings the model uses ("" is the empty string, LongText a
\* string longer than every length limit of the schemas)
LongText == "xxxxxxxxxxxxxxxxxxxxxxxxxxxxxxxxxxxxxxxx..."
StrLen(s) == IF s = "" THEN 0 ELSE IF s = LongText THEN MaxNameLen + 1 ELSE 4

\* datetime.isoformat(): a string that determines the timestamp
IsoFormat(t) == <<"iso", t>>

-----------------------------------------------------------------------------
(* The insertion-ordered dict models._portfolios *)

Keys(store) == {store[i].key : i \in DOMAIN store}
Values(store) == [i \in DOMAIN store |-> store[i].val]
Get(store, k) == LET i == CHOOSE i \in DOMAIN store : store[i].key = k IN store[i].val
Put(store, k, v) ==
    IF k \in Keys(store)
    THEN [i \in DOMAIN store |-> IF store[i].key = k THEN [key |-> k, val |-> v] ELSE store[i]]
    ELSE Append(store, [key |-> k, val |-> v])

-----------------------------------------------------------------------------
(* Domain models: app/models.py *)

\* Portfolio.__init__ as the schema's post_load calls it: the identifiers are
\* fresh uuids, total_value is 0 and both timestamps are one clock reading
Portfolio(client_id, portfolio_name, investment_objective, risk_tolerance, benchmark_index, currency, portfolio_id, advisor_id, t) ==
    [portfolio_id |-> portfolio_id,
     client_id |-> client_id,
     advisor_id |-> advisor_id,
     portfolio_name |-> portfolio_name,
     status |-> "active",
     investment_objective |-> investment_objective,
     risk_tolerance |-> risk_tolerance,
     total_value |-> 0,
     currency |-> currency,
     benchmark_index |-> benchmark_index,
     created_at |-> t,
     updated_at |-> t]

PortfolioToDict(p) ==
    [portfolioId |-> p.portfolio_id,
     clientId |-> p.client_id,
     advisorId |-> p.advisor_id,
     portfolioName |-> p.portfolio_name,
     status |-> p.status,
     investmentObjective |-> p.investment_objective,
     riskTolerance |-> p.risk_tolerance,
     totalValue |-> p.total_value,
     currency |-> p.currency,
     benchmarkIndex |-> p.benchmark_index,
     createdAt |-> IsoFormat(p.created_at),
     updatedAt |-> IsoFormat(p.updated_at)]

\* round(150.0 + (hash(ticker) % 200), 2), in cents
PricePerUnit(ticker) == 100 * (PriceBase + (strhash[ticker] % PriceBand))

\* round(price_per_unit * quantity, 2), in cents, the quantity in thousandths
TotalAmount(price_per_unit, quantity) == RoundDiv(price_per_unit * quantity, 1000)

\* Trade.__init__ as initiate_trade calls it
Trade(portfolio_id, instrument_type, ticker, side, quantity, order_type, limit_price, trade_id, t) ==
    [trade_id |-> trade_id,
     portfolio_id |-> portfolio_id,
     instrument_type |-> instrument_type,
     ticker |-> ticker,
     side |-> side,
     quantity |-> quantity,
     order_type |-> order_type,
     limit_price |-> limit_price,
     price_per_unit |-> PricePerUnit(ticker),
     total_amount |-> TotalAmount(PricePerUnit(ticker), quantity),
     currency |-> "USD",
     status |-> "pending",
     compliance_status |-> "approved",
     initiated_at |-> t]

TradeToDict(t) ==
    [tradeId |-> t.trade_id,
     portfolioId |-> t.portfolio_id,
     instrumentType |-> t.instrument_type,
     ticker |-> t.ticker,
     side |-> t.side,
     quantity |-> t.quantity,
     pricePerUnit |-> t.price_per_unit,
     totalAmount |-> t.total_amount,
     currency |-> t.currency,
     status |-> t.status,
     complianceStatus |-> t.compliance_status,
     initiatedAt |-> IsoFormat(t.initiated_at)]

-----------------------------------------------------------------------------
(* Requests.  A JSON body is [kind, obj]: kind "none" is a missing or non-JSON *)
(* body (get_json(silent=True) returns None), kind "object" a JSON object      *)
(* given as a record.  A query parameter read with type=int is [kind, val].    *)

NoneStr == "<None>"
EmptyObject == [f \in {} |-> f]
NoBody == [kind |-> "none", obj |-> EmptyObject]
JsonObject(obj) == [kind |-> "object", obj |-> obj]

AbsentArg == [kind |-> "absent", val |-> 0]
TextArg == [kind |-> "text", val |-> 0]
IntArg(n) == [kind |-> "int", val |-> n]
NoArgs == [limit |-> AbsentArg, offset |-> AbsentArg, status |-> NoneStr]

\* request.args.get(name, default, type=int): the default when the parameter is
\* absent or is no integer
ArgInt(raw, default) == IF raw.kind = "int" THEN raw.val ELSE default

\* Python truthiness of an optional string, and of the parsed body
StrTruthy(s) == s # NoneStr /\ s # ""
BodyFalsy(body) == body.kind = "none" \/ DOMAIN body.obj = {}

Req(op, pid, tid, args, body) == [op |-> op, pid |-> pid, tid |-> tid, args |-> args, body |-> body]
Resp(status, body) == [status |-> status, body |-> body]
NotFound(what) == Resp(404, [error |-> "not_found", what |-> what])
BadRequest == Resp(400, [error |-> "bad_request", message |-> "Request body must be JSON"])
ValidationFailed(details) == Resp(400, [error |-> "validation_error", details |-> details])

-----------------------------------------------------------------------------
(* Marshmallow schemas: the set of fields err.messages reports *)

CurrencyCodes == {"USD", "EUR", "GBP"}

Has(obj, f) == f \in DOMAIN obj

PortfolioInitiateFields == {"clientId", "portfolioName", "investmentObjective", "riskTolerance", "benchmarkIndex", "currency"}
PortfolioInitiateErrors(obj) ==
    {f \in {"clientId", "portfolioName", "investmentObjective"} : ~Has(obj, f)}
    \cup (DOMAIN obj \ PortfolioInitiateFields)
    \cup {f \in {"portfolioName"} : Has(obj, f) /\ ~(StrLen(obj[f]) >= 1 /\ StrLen(obj[f]) <= MaxNameLen)}
    \cup {f \in {"investmentObjective"} : Has(obj, f) /\ obj[f] \notin OBJECTIVES}
    \cup {f \in {"riskTolerance"} : Has(obj, f) /\ obj[f] \notin RISK_LEVELS}
    \cup {f \in {"currency"} : Has(obj, f) /\ obj[f] \notin CurrencyCodes}

\* load_default fills the optional fields that the body leaves out
PortfolioInitiateLoad(obj) ==
    [clientId |-> obj.clientId,
     portfolioName |-> obj.portfolioName,
     investmentObjective |-> obj.investmentObjective,
     riskTolerance |-> IF Has(obj, "riskTolerance") THEN obj.riskTolerance ELSE "moderate",
     benchmarkIndex |-> IF Has(obj, "benchmarkIndex") THEN obj.benchmarkIndex ELSE "",
     currency |-> IF Has(obj, "currency") THEN obj.currency ELSE "USD"]

\* post_load make_portfolio
MakePortfolio(data, portfolio_id, advisor_id, t) ==
    Portfolio(data.clientId, data.portfolioName, data.investmentObjective, data.riskTolerance, data.benchmarkIndex, data.currency, portfolio_id, advisor_id, t)

PortfolioUpdateFields == {"portfolioName", "investmentObjective", "riskTolerance", "status", "benchmarkIndex"}
PortfolioUpdateErrors(obj) ==
    {f \in {"portfolioName"} : ~Has(obj, f)}
    \cup (DOMAIN obj \ PortfolioUpdateFields)
    \cup {f \in {"portfolioName"} : Has(obj, f) /\ ~(StrLen(obj[f]) >= 1 /\ StrLen(obj[f]) <= MaxNameLen)}
    \cup {f \in {"investmentObjective"} : Has(obj, f) /\ obj[f] \notin OBJECTIVES}
    \cup {f \in {"riskTolerance"} : Has(obj, f) /\ obj[f] \notin RISK_LEVELS}
    \cup {f \in {"status"} : Has(obj, f) /\ obj[f] \notin PORTFOLIO_STATUSES}

TradeInitiateFields == {"instrumentType", "ticker", "side", "quantity", "limitPrice", "orderType"}
TradeInitiateErrors(obj) ==
    {f \in {"instrumentType", "ticker", "side", "quantity"} : ~Has(obj, f)}
    \cup (DOMAIN obj \ TradeInitiateFields)
    \cup {f \in {"instrumentType"} : Has(obj, f) /\ obj[f] \notin INSTRUMENT_TYPES}
    \cup {f \in {"ticker"} : Has(obj, f) /\ ~(StrLen(obj[f]) >= 1 /\ StrLen(obj[f]) <= MaxTickerLen)}
    \cup {f \in {"side"} : Has(obj, f) /\ obj[f] \notin TRADE_SIDES}
    \cup {f \in {"quantity"} : Has(obj, f) /\ ~(obj[f] > 0)}
    \cup {f \in {"limitPrice"} : Has(obj, f) /\ ~(obj[f] >= 0)}
    \cup {f \in {"orderType"} : Has(obj, f) /\ obj[f] \notin ORDER_TYPES}

\* validated.get("orderType", "market") and validated.get("limitPrice")
TradeInitiateLoad(obj) ==
    [instrumentType |-> obj.instrumentType,
     ticker |-> obj.ticker,
     side |-> obj.side,
     quantity |-> obj.quantity,
     orderType |-> IF Has(obj, "orderType") THEN obj.orderType ELSE "market",
     limitPrice |-> IF Has(obj, "limitPrice") THEN obj.limitPrice ELSE -1]

-----------------------------------------------------------------------------
(* Handlers: app/routes.py.  Each XxxOutcome is what the handler returns and   *)
(* the stores it leaves: [resp, portfolios, trades, uuids, now].               *)

Outcome(resp, ps, ts, u, t) == [resp |-> resp, portfolios |-> ps, trades |-> ts, uuids |-> u, now |-> t]
\* a handler that only reads
ReadOnly(resp) == Outcome(resp, portfolios, trades, uuids, now)

TradesOf(ts, pid) == IF pid \in DOMAIN ts THEN ts[pid] ELSE <<>>
AllTrades(ts) == UNION {{ts[p][i] : i \in DOMAIN ts[p]} : p \in DOMAIN ts}

\* limit = max(1, min(limit, 100)); offset = max(0, offset)
ClampLimit(limit) == Max(MinLimit, Min(limit, MaxLimit))
ClampOffset(offset) == Max(0, offset)

\* health_check
HealthCheckOutcome ==
    ReadOnly(Resp(200, [status |-> "healthy", service |-> "advisor-portfolio-api", version |-> "1.0.0", timestamp |-> IsoFormat(now)]))

\* ListPortfoliosOffset with line 49 left out
ListPortfoliosOffsetUnclamped(args) == ArgInt(args.offset, 0)

\* list_portfolios: the offset it pages from
ListPortfoliosOffset(args) == ClampOffset(ArgInt(args.offset, 0))

\* list_portfolios: sort by created_at descending, filter by status, slice
PortfolioPage(store, limit, offset, status_filter) ==
    LET vals == Values(store)
        sorted == SortedDesc(vals, [i \in DOMAIN vals |-> vals[i].created_at])
        IsMatch(x) == x.status = status_filter
        all_items == IF StrTruthy(status_filter) THEN SelectSeq(sorted, IsMatch) ELSE sorted
    IN  [page |-> PySlice(all_items, offset, offset + limit), total |-> Len(all_items)]

ListPortfoliosOutcome(args) ==
    LET limit == ClampLimit(ArgInt(args.limit, DefaultLimit))
        offset == ListPortfoliosOffset(args)
        r == PortfolioPage(portfolios, limit, offset, args.status)
    IN  ReadOnly(Resp(200, [portfolios |-> [i \in DOMAIN r.page |-> PortfolioToDict(r.page[i])],
                            total |-> r.total, limit |-> limit, offset |-> offset]))

\* initiate_portfolio
InitiatePortfolioOutcome(body) ==
    IF BodyFalsy(body) THEN ReadOnly(BadRequest)
    ELSE IF PortfolioInitiateErrors(body.obj) # {}
    THEN ReadOnly(ValidationFailed(PortfolioInitiateErrors(body.obj)))
    ELSE LET portfolio == MakePortfolio(PortfolioInitiateLoad(body.obj), uuids + 1, uuids + 2, now)
         IN  Outcome(Resp(201, PortfolioToDict(portfolio)),
                     Put(portfolios, portfolio.portfolio_id, portfolio), trades, uuids + 2, now)

\* GetPortfolioOutcome answering with updated_at set to the time of the read
GetPortfolioTouched(pid) ==
    IF pid \notin Keys(portfolios) THEN ReadOnly(NotFound("portfolio"))
    ELSE ReadOnly(Resp(200, PortfolioToDict([Get(portfolios, pid) EXCEPT !.updated_at = now])))

\* get_portfolio
GetPortfolioOutcome(pid) ==
    IF pid \notin Keys(portfolios) THEN ReadOnly(NotFound("portfolio"))
    ELSE ReadOnly(Resp(200, PortfolioToDict(Get(portfolios, pid))))

\* ApplyUpdate with the status read as validated.get("status", "active")
ApplyUpdateDefaultStatus(portfolio, validated, t) ==
    [portfolio EXCEPT
        !.portfolio_name = validated.portfolioName,
        !.investment_objective = IF Has(validated, "investmentObjective") THEN validated.investmentObjective ELSE @,
        !.risk_tolerance = IF Has(validated, "riskTolerance") THEN validated.riskTolerance ELSE @,
        !.status = IF Has(validated, "status") THEN validated.status ELSE "active",
        !.benchmark_index = IF Has(validated, "benchmarkIndex") THEN validated.benchmarkIndex ELSE @,
        !.updated_at = t]

\* update_portfolio, lines 105-114: the assignments to the stored object
ApplyUpdate(portfolio, validated, t) ==
    [portfolio EXCEPT
        !.portfolio_name = validated.portfolioName,
        !.investment_objective = IF Has(validated, "investmentObjective") THEN validated.investmentObjective ELSE @,
        !.risk_tolerance = IF Has(validated, "riskTolerance") THEN validated.riskTolerance ELSE @,
        !.status = IF Has(validated, "status") THEN validated.status ELSE @,
        !.benchmark_index = IF Has(validated, "benchmarkIndex") THEN validated.benchmarkIndex ELSE @,
        !.updated_at = t]

UpdatePortfolioOutcome(pid, body) ==
    IF pid \notin Keys(portfolios) THEN ReadOnly(NotFound("portfolio"))
    ELSE IF BodyFalsy(body) THEN ReadOnly(BadRequest)
    ELSE IF PortfolioUpdateErrors(body.obj) # {}
    THEN ReadOnly(ValidationFailed(PortfolioUpdateErrors(body.obj)))
    ELSE LET portfolio == ApplyUpdate(Get(portfolios, pid), body.obj, now)
         IN  Outcome(Resp(200, PortfolioToDict(portfolio)), Put(portfolios, pid, portfolio), trades, uuids, now)

\* list_trades: the offset it pages from (the handler does not clamp it)
ListTradesOffset(args) == ArgInt(args.offset, 0)

\* list_trades: filter by status, sort by initiated_at descending, slice
TradePage(ts, limit, offset, status_filter) ==
    LET IsMatch(x) == x.status = status_filter
        filtered == IF StrTruthy(status_filter) THEN SelectSeq(ts, IsMatch) ELSE ts
        trades_sorted == SortedDesc(filtered, [i \in DOMAIN filtered |-> filtered[i].initiated_at])
    IN  [page |-> PySlice(trades_sorted, offset, offset + limit), total |-> Len(trades_sorted)]

ListTradesOutcome(pid, args) ==
    IF pid \notin Keys(portfolios) THEN ReadOnly(NotFound("portfolio"))
    ELSE LET limit == ClampLimit(ArgInt(args.limit, DefaultLimit))
             offset == ListTradesOffset(args)
             r == TradePage(TradesOf(trades, pid), limit, offset, args.status)
         IN  ReadOnly(Resp(200, [trades |-> [i \in DOMAIN r.page |-> TradeToDict(r.page[i])],
                                 total |-> r.total, limit |-> limit, offset |-> offset]))

\* initiate_trade, lines 165-173: the Trade built from the validated body
NewTrade(pid, validated, trade_id, t) ==
    Trade(pid, validated.instrumentType, validated.ticker, validated.side, validated.quantity, validated.orderType, validated.limitPrice, trade_id, t)

\* initiate_trade, line 176: trade_store.setdefault(portfolio_id, []).append(trade)
AppendTrade(ts, pid, trade) ==
    [q \in DOMAIN ts \cup {pid} |-> IF q = pid THEN Append(TradesOf(ts, pid), trade) ELSE ts[q]]

\* ApplyTrade with the floor of line 183 left out
ApplyTradeNoFloor(total_value, trade) ==
    IF trade.side = "buy"
    THEN total_value + trade.total_amount
    ELSE total_value - trade.total_amount

\* initiate_trade, lines 180-183: the new total value
ApplyTrade(total_value, trade) ==
    IF trade.side = "buy"
    THEN total_value + trade.total_amount
    ELSE Max(0, total_value - trade.total_amount)

\* InitiateTradeOutcome with the body checked before the portfolio is looked up
InitiateTradeBodyFirst(pid, body, t2) ==
    IF BodyFalsy(body) THEN ReadOnly(BadRequest)
    ELSE IF TradeInitiateErrors(body.obj) # {}
    THEN ReadOnly(ValidationFailed(TradeInitiateErrors(body.obj)))
    ELSE IF pid \notin Keys(portfolios) THEN ReadOnly(NotFound("portfolio"))
    ELSE LET trade == NewTrade(pid, TradeInitiateLoad(body.obj), uuids + 1, now)
             portfolio == Get(portfolios, pid)
             updated == [portfolio EXCEPT !.total_value = ApplyTrade(@, trade), !.updated_at = t2]
         IN  Outcome(Resp(201, TradeToDict(trade)), Put(portfolios, pid, updated),
                     AppendTrade(trades, pid, trade), uuids + 1, t2)

\* initiate_trade; t2 is the clock reading of line 184, not before the Trade's own
InitiateTradeOutcome(pid, body, t2) ==
    IF pid \notin Keys(portfolios) THEN ReadOnly(NotFound("portfolio"))
    ELSE IF BodyFalsy(body) THEN ReadOnly(BadRequest)
    ELSE IF TradeInitiateErrors(body.obj) # {}
    THEN ReadOnly(ValidationFailed(TradeInitiateErrors(body.obj)))
    ELSE LET trade == NewTrade(pid, TradeInitiateLoad(body.obj), uuids + 1, now)
             portfolio == Get(portfolios, pid)
             updated == [portfolio EXCEPT !.total_value = ApplyTrade(@, trade), !.updated_at = t2]
         IN  Outcome(Resp(201, TradeToDict(trade)), Put(portfolios, pid, updated),
                     AppendTrade(trades, pid, trade), uuids + 1, t2)

\* get_trade
GetTradeOutcome(pid, tid) ==
    IF pid \notin Keys(portfolios) THEN ReadOnly(NotFound("portfolio"))
    ELSE LET ts == TradesOf(trades, pid)
             found == {i \in DOMAIN ts : ts[i].trade_id = tid}
         IN  IF found = {} THEN ReadOnly(NotFound("trade"))
             ELSE ReadOnly(Resp(200, TradeToDict(ts[CHOOSE i \in found : \A j \in found : i <= j])))

\* get_portfolio_performance: fixed figures
GetPortfolioPerformanceOutcome(pid, period) ==
    IF pid \notin Keys(portfolios) THEN ReadOnly(NotFound("portfolio"))
    ELSE ReadOnly(Resp(200, [portfolioId |-> pid,
                             period |-> IF period = NoneStr THEN "1m" ELSE period,
                             totalReturn |-> "8.42", annualizedReturn |-> "12.15",
                             benchmarkReturn |-> "7.89", alpha |-> "0.53", sharpeRatio |-> "1.34",
                             maxDrawdown |-> "-3.21", volatility |-> "11.7", asOfDate |-> <<"date", now>>]))

-----------------------------------------------------------------------------
(* The requests the model sends *)

Tickers == {"AAPL"}
HashValues == {7, -3}

CreateBodies ==
    {NoBody,
     JsonObject(EmptyObject),
     JsonObject([clientId |-> "c1", portfolioName |-> "Core", investmentObjective |-> "growth",
                 riskTolerance |-> "conservative"]),
     JsonObject([riskTolerance |-> "moderate"]),
     JsonObject([clientId |-> "c1", portfolioName |-> "", investmentObjective |-> "speculation"])}

UpdateBodies ==
    {NoBody,
     JsonObject(EmptyObject),
     JsonObject([portfolioName |-> "Main"]),
     JsonObject([portfolioName |-> "Main", investmentObjective |-> "balanced", riskTolerance |-> "aggressive",
                 status |-> "closed", benchmarkIndex |-> "SPX"]),
     JsonObject([status |-> "closed"]),
     JsonObject([portfolioName |-> "Main", totalValue |-> 999])}

\* quantities are in thousandths: 10.0 bought, 10.005 sold
TradeBodies ==
    {NoBody,
     JsonObject(EmptyObject),
     JsonObject([instrumentType |-> "equity", ticker |-> "AAPL", side |-> "buy", quantity |-> 10000]),
     JsonObject([instrumentType |-> "etf", ticker |-> "AAPL", side |-> "sell", quantity |-> 10005,
                 orderType |-> "limit", limitPrice |-> 100]),
     JsonObject([instrumentType |-> "equity", ticker |-> "AAPL", side |-> "buy", quantity |-> 0])}

PortfolioQueries ==
    [limit : {TextArg, IntArg(0), IntArg(2), IntArg(MaxLimit + 1)},
     offset : {AbsentArg, IntArg(-1), IntArg(1), IntArg(5)},
     status : {NoneStr, "", "closed"}]

TradeQueries ==
    [limit : {TextArg, IntArg(1)},
     offset : {AbsentArg, IntArg(-1), IntArg(1)},
     status : {NoneStr, "executed"}]

FewListArgs ==
    {NoArgs, [limit |-> IntArg(1), offset |-> IntArg(1), status |-> "active"]}

Periods == {NoneStr, "1y"}

\* an identifier that is no key of the store, and the ones that are
UnknownId == 0
PortfolioIds == Keys(portfolios) \cup {UnknownId}
TradeIds == {t.trade_id : t \in AllTrades(trades)} \cup {UnknownId}

-----------------------------------------------------------------------------
(* Spec: the API, one request at a time.  The server takes a request, runs its *)
(* handler to the end and sends the response before it takes the next one.     *)

NoRequest == Req("none", UnknownId, UnknownId, NoArgs, NoBody)
NoResponse == Resp(0, EmptyObject)

\* whether a handler's outcome changes a store
Writes(out) == out.portfolios # portfolios \/ out.trades # trades

\* a request handled: the response is returned and the stores are as the handler left them
Handle(req, out) ==
    /\ request = NoRequest
    /\ Writes(out) => writes < MaxWrites
    /\ request' = req
    /\ response' = out.resp
    /\ portfolios' = out.portfolios
    /\ trades' = out.trades
    /\ uuids' = out.uuids
    /\ now' = out.now
    /\ writes' = IF Writes(out) THEN writes + 1 ELSE writes
    /\ UNCHANGED <<strhash, workers, tdVars>>

HealthCheck == Handle(Req("health_check", UnknownId, UnknownId, NoArgs, NoBody), HealthCheckOutcome)

ListPortfolios(args) == Handle(Req("list_portfolios", UnknownId, UnknownId, args, NoBody), ListPortfoliosOutcome(args))

InitiatePortfolio(body) == Handle(Req("initiate_portfolio", UnknownId, UnknownId, NoArgs, body), InitiatePortfolioOutcome(body))

GetPortfolio(pid) == Handle(Req("get_portfolio", pid, UnknownId, NoArgs, NoBody), GetPortfolioOutcome(pid))

UpdatePortfolio(pid, body) == Handle(Req("update_portfolio", pid, UnknownId, NoArgs, body), UpdatePortfolioOutcome(pid, body))

ListTrades(pid, args) == Handle(Req("list_trades", pid, UnknownId, args, NoBody), ListTradesOutcome(pid, args))

InitiateTrade(pid, body, t2) == Handle(Req("initiate_trade", pid, UnknownId, NoArgs, body), InitiateTradeOutcome(pid, body, t2))

GetTrade(pid, tid) == Handle(Req("get_trade", pid, tid, NoArgs, NoBody), GetTradeOutcome(pid, tid))

GetPortfolioPerformance(pid, period) ==
    Handle(Req("get_portfolio_performance", pid, UnknownId, [NoArgs EXCEPT !.status = period], NoBody),
           GetPortfolioPerformanceOutcome(pid, period))

\* the response has gone out; the server is ready for the next request
Respond ==
    /\ request # NoRequest
    /\ request' = NoRequest
    /\ response' = NoResponse
    /\ UNCHANGED <<portfolios, trades, now, uuids, strhash, writes, workers, tdVars>>

\* the clock readings the stores hold
Timestamps ==
    {portfolios[i].val.created_at : i \in DOMAIN portfolios}
    \cup {portfolios[i].val.updated_at : i \in DOMAIN portfolios}
    \cup {t.initiated_at : t \in AllTrades(trades)}

\* time passes between requests.  Timestamps are only ever compared, so a tick
\* that follows a reading nothing kept shows the same behaviours as none: the
\* clock is advanced only past a reading that is stored
Tick ==
    /\ request = NoRequest
    /\ now \in Timestamps
    /\ now' = now + 1
    /\ UNCHANGED <<portfolios, trades, uuids, strhash, request, response, writes, workers, tdVars>>

ApiInit ==
    /\ portfolios = <<>>
    /\ trades = [q \in {} |-> <<>>]
    /\ now = 0
    /\ uuids = 0
    /\ strhash \in [Tickers -> HashValues]
    /\ request = NoRequest
    /\ response = NoResponse
    /\ writes = 0

ConcIdle == workers = <<>>
TdIdle ==
    /\ tdArgs = <<>> /\ tdPc = "off" /\ cloud = <<>> /\ calls = <<>>
    /\ logs = <<>> /\ run = "none" /\ faults = 0 /\ locals = <<>>

Init == ApiInit /\ ConcIdle /\ TdIdle

\* the clock readings line 184 can make after the Trade was stamped with `now`
LaterReadings == {now, now + 1}

\* the requests of one step, the bodies and query strings drawn from the given sets
Serve(creates, updates, orders, pqueries, tqueries) ==
    \/ Tick
    \/ Respond
    \/ HealthCheck
    \/ \E args \in pqueries : ListPortfolios(args)
    \/ \E body \in creates : InitiatePortfolio(body)
    \/ \E pid \in PortfolioIds : GetPortfolio(pid)
    \/ \E pid \in PortfolioIds, body \in updates : UpdatePortfolio(pid, body)
    \/ \E pid \in PortfolioIds, args \in tqueries : ListTrades(pid, args)
    \/ \E pid \in PortfolioIds, body \in orders, t2 \in LaterReadings : InitiateTrade(pid, body, t2)
    \/ \E pid \in PortfolioIds, tid \in TradeIds : GetTrade(pid, tid)
    \/ \E pid \in PortfolioIds, period \in Periods : GetPortfolioPerformance(pid, period)

Next == Serve(CreateBodies, UpdateBodies, TradeBodies, FewListArgs, FewListArgs)

Spec == Init /\ [][Next]_vars

\* SpecPaging: the same server, asked for every page of a few stores
PagingCreates == {b \in CreateBodies : ~BodyFalsy(b) /\ PortfolioInitiateErrors(b.obj) = {}}
PagingUpdates == {b \in UpdateBodies : ~BodyFalsy(b) /\ PortfolioUpdateErrors(b.obj) = {} /\ Has(b.obj, "status")}
PagingOrders == {b \in TradeBodies : ~BodyFalsy(b) /\ TradeInitiateErrors(b.obj) = {} /\ b.obj.side = "buy"}

NextPaging == Serve(PagingCreates, PagingUpdates, PagingOrders, PortfolioQueries, TradeQueries)

SpecPaging == Init /\ [][NextPaging]_vars

-----------------------------------------------------------------------------
(* SpecConc: initiate_trade run by several workers of a threaded WSGI server.  *)
(* The handler takes no lock, so between its reads and writes of the shared    *)
(* stores another worker may run.  A worker's steps are the handler's accesses *)
(* to the stores: append to the trade list (line 176), read total_value, write *)
(* total_value (lines 181/183), write updated_at (line 184).                   *)

NumWorkers == 2
Workers == 1..NumWorkers

IdleWorker == [pc |-> "idle", pid |-> UnknownId, trade |-> EmptyObject, total_value |-> 0, status |-> 0]

\* an order the model sends while workers overlap
ConcOrders == {b \in TradeBodies : ~BodyFalsy(b) /\ TradeInitiateErrors(b.obj) = {}}
ConcCreates == {b \in CreateBodies : ~BodyFalsy(b) /\ PortfolioInitiateErrors(b.obj) = {}}

\* initiate_portfolio: its one store access is the assignment of line 76
ConcInitiatePortfolio(body) ==
    /\ writes < MaxWrites
    /\ InitiatePortfolioOutcome(body).resp.status = 201
    /\ portfolios' = InitiatePortfolioOutcome(body).portfolios
    /\ uuids' = InitiatePortfolioOutcome(body).uuids
    /\ writes' = writes + 1
    /\ UNCHANGED <<trades, now, strhash, request, response, workers, tdVars>>

\* initiate_trade, lines 152-173: look the portfolio up, validate, build the Trade
BeginTrade(w, pid, body) ==
    /\ workers[w].pc = "idle"
    /\ LET out == InitiateTradeOutcome(pid, body, now)
       IN  IF out.resp.status # 201
           THEN /\ workers' = [workers EXCEPT ![w] = [IdleWorker EXCEPT !.status = out.resp.status]]
                /\ UNCHANGED <<uuids, writes>>
           ELSE /\ writes < MaxWrites
                /\ workers' = [workers EXCEPT ![w] =
                        [pc |-> "append", pid |-> pid,
                         trade |-> NewTrade(pid, TradeInitiateLoad(body.obj), uuids + 1, now),
                         total_value |-> 0, status |-> 0]]
                /\ uuids' = uuids + 1
                /\ writes' = writes + 1
    /\ UNCHANGED <<portfolios, trades, now, strhash, request, response, tdVars>>

\* line 176: trade_store.setdefault(portfolio_id, []).append(trade)
AppendStep(w) ==
    /\ workers[w].pc = "append"
    /\ trades' = AppendTrade(trades, workers[w].pid, workers[w].trade)
    /\ workers' = [workers EXCEPT ![w].pc = "load"]
    /\ UNCHANGED <<portfolios, now, uuids, strhash, request, response, writes, tdVars>>

\* lines 179-183, first half: read portfolio.total_value
LoadStep(w) ==
    /\ workers[w].pc = "load"
    /\ workers' = [workers EXCEPT ![w].pc = "store",
                                  ![w].total_value = Get(portfolios, workers[w].pid).total_value]
    /\ UNCHANGED <<portfolios, trades, now, uuids, strhash, request, response, writes, tdVars>>

\* lines 179-183, second half: assign portfolio.total_value from the value read
StoreStep(w) ==
    /\ workers[w].pc = "store"
    /\ portfolios' = Put(portfolios, workers[w].pid,
                         [Get(portfolios, workers[w].pid) EXCEPT
                            !.total_value = ApplyTrade(workers[w].total_value, workers[w].trade)])
    /\ workers' = [workers EXCEPT ![w].pc = "stamp"]
    /\ UNCHANGED <<trades, now, uuids, strhash, request, response, writes, tdVars>>

\* lines 184-186: stamp updated_at and return 201
StampStep(w) ==
    /\ workers[w].pc = "stamp"
    /\ portfolios' = Put(portfolios, workers[w].pid,
                         [Get(portfolios, workers[w].pid) EXCEPT !.updated_at = now])
    /\ workers' = [workers EXCEPT ![w] = [IdleWorker EXCEPT !.status = 201]]
    /\ UNCHANGED <<trades, now, uuids, strhash, request, response, writes, tdVars>>

ConcInit == ApiInit /\ workers = [w \in Workers |-> IdleWorker] /\ TdIdle

NextConc ==
    \/ Tick
    \/ \E body \in ConcCreates : ConcInitiatePortfolio(body)
    \/ \E w \in Workers, pid \in PortfolioIds, body \in ConcOrders : BeginTrade(w, pid, body)
    \/ \E w \in Workers : AppendStep(w)
    \/ \E w \in Workers : LoadStep(w)
    \/ \E w \in Workers : StoreStep(w)
    \/ \E w \in Workers : StampStep(w)

SpecConc == ConcInit /\ [][NextConc]_vars

-----------------------------------------------------------------------------
(* scripts/teardown.py: one run of main against the three external services *)

MaxApis == 2
MaxPolicies == 2
MaxFaults == 1

\* names the result file (or --project) gives the resources
WorkspaceId == "W"
ApiNameOf(function_name) == <<function_name, "-api">>
FunctionName == "F"

\* how an external call is answered: as the state of the service dictates,
\* with an error status (HTTP 4xx/5xx other than 404, a ClientError with
\* another code), or with an exception of the client library that is not a
\* ClientError (requests.ConnectionError, botocore EndpointConnectionError)
Answers == {"normal", "error", "raise"}

Called(op, args) == [op |-> op, args |-> args]
Report(level, kind, outcome) == [level |-> level, kind |-> kind, outcome |-> outcome]

\* the APIs get_apis lists: one of another project, then k named F-api
ApiItems(k) == [i \in 1..(k + 1) |-> [ApiId |-> i, Name |-> IF i = 1 THEN <<"other", "-api">> ELSE ApiNameOf(FunctionName)]]
PolicyArns(j) == [i \in 1..j |-> i]
Without(seq, x) == SelectSeq(seq, LAMBDA y : y # x)

Clouds ==
    { [workspace |-> w, repo |-> r, apis |-> ApiItems(k), function |-> f, role |-> (j >= 0), policies |-> PolicyArns(Max(j, 0)), loggroup |-> g] :
        w \in BOOLEAN, r \in BOOLEAN, k \in 0..MaxApis, f \in BOOLEAN, j \in (-1)..MaxPolicies, g \in BOOLEAN }

\* argparse namespace plus what the result file holds
CommandLines ==
    { [mode |-> m, dry_run |-> d, workspace_id |-> w] :
        m \in {"result", "project", "none"}, d \in BOOLEAN, w \in {WorkspaceId, ""} }

NoLocals == [workspace_id |-> "", items |-> <<>>, policies |-> <<>>]

ApiOff ==
    /\ portfolios = <<>>
    /\ trades = [q \in {} |-> <<>>]
    /\ now = 0
    /\ uuids = 0
    /\ strhash = [t \in Tickers |-> PriceBase]
    /\ request = NoRequest
    /\ response = NoResponse
    /\ writes = 0

TdInit ==
    /\ ApiOff /\ ConcIdle
    /\ tdArgs \in {a \in CommandLines : a.mode = "result" \/ a.workspace_id = ""}
    /\ cloud \in Clouds
    /\ tdPc = "main"
    /\ calls = <<>>
    /\ logs = <<>>
    /\ run = "first"
    /\ faults = 0
    /\ locals = NoLocals

\* an answer other than the normal one uses up one of the MaxFaults
Faulty(ans) ==
    /\ ans # "normal" => faults < MaxFaults
    /\ faults' = IF ans = "normal" THEN faults ELSE faults + 1

\* an exception nothing catches leaves main
Crash == tdPc' = "crashed" /\ logs' = logs

\* lines 154-183
ParseArgs ==
    /\ tdPc = "main"
    /\ CASE tdArgs.mode = "result" -> tdPc' = "announce" /\ locals' = [locals EXCEPT !.workspace_id = tdArgs.workspace_id]
         [] tdArgs.mode = "project" -> tdPc' = "find_workspace" /\ locals' = locals
         [] OTHER -> tdPc' = "usage_error" /\ locals' = locals
    /\ UNCHANGED <<apiVars, workers, tdArgs, cloud, calls, logs, run, faults>>

\* lines 180, 199-208
FindWorkspaceId ==
    /\ tdPc = "find_workspace"
    /\ \E ans \in Answers :
        /\ Faulty(ans)
        /\ calls' = Append(calls, Called("postman.list_workspaces", {}))
        /\ IF ans = "raise"
           THEN tdPc' = "crashed" /\ locals' = locals
           ELSE /\ tdPc' = "announce"
                /\ locals' = [locals EXCEPT !.workspace_id = IF ans = "normal" /\ cloud.workspace THEN WorkspaceId ELSE ""]
    /\ UNCHANGED <<apiVars, workers, tdArgs, cloud, logs, run>>

\* lines 185-186
Announce ==
    /\ tdPc = "announce"
    /\ logs' = Append(logs, Report("info", "run", "start"))
    /\ tdPc' = "postman"
    /\ UNCHANGED <<apiVars, workers, tdArgs, cloud, calls, run, faults, locals>>

\* lines 33-34 and 45: the request teardown_postman sends
PostmanOp(dry_run) == IF dry_run THEN "postman.get_workspace" ELSE "postman.delete_workspace"

\* lines 38-42 and 49-54: found is resp.ok, a missing workspace answers 404
PostmanReport(op, ans, found) ==
    IF op = "postman.get_workspace"
    THEN IF ans = "normal" /\ found THEN Report("info", "workspace", "would_delete") ELSE Report("warning", "workspace", "not_found")
    ELSE CASE ans = "normal" /\ found -> Report("info", "workspace", "deleted")
           [] ans = "normal" /\ ~found -> Report("info", "workspace", "already_deleted")
           [] OTHER -> Report("warning", "workspace", "failed")

\* lines 188-191 and teardown_postman
TeardownPostman ==
    /\ tdPc = "postman"
    /\ IF locals.workspace_id = ""
       THEN /\ logs' = Append(logs, Report("warning", "workspace", "skipped"))
            /\ tdPc' = "github"
            /\ UNCHANGED <<cloud, calls, faults>>
       ELSE \E ans \in Answers :
            LET op == PostmanOp(tdArgs.dry_run) IN
            /\ Faulty(ans)
            /\ calls' = Append(calls, Called(op, {}))
            /\ cloud' = IF op = "postman.delete_workspace" /\ ans = "normal" THEN [cloud EXCEPT !.workspace = FALSE] ELSE cloud
            /\ IF ans = "raise" THEN Crash
               ELSE /\ logs' = Append(logs, PostmanReport(op, ans, cloud.workspace))
                    /\ tdPc' = "github"
    /\ UNCHANGED <<apiVars, workers, tdArgs, run, locals>>

\* lines 61-62 and 72
GithubOp(dry_run) == IF dry_run THEN "github.get_repo" ELSE "github.delete_repo"

\* lines 66-69 and 76-79: a delete answered 204 or 404 is logged the same way
GithubReport(op, ans, found) ==
    IF op = "github.get_repo"
    THEN IF ans = "normal" /\ found THEN Report("info", "repo", "would_delete") ELSE Report("info", "repo", "not_found")
    ELSE IF ans = "normal" THEN Report("info", "repo", "deleted") ELSE Report("warning", "repo", "failed")

\* line 193 and teardown_github
TeardownGithub ==
    /\ tdPc = "github"
    /\ \E ans \in Answers :
        LET op == GithubOp(tdArgs.dry_run) IN
        /\ Faulty(ans)
        /\ calls' = Append(calls, Called(op, {}))
        /\ cloud' = IF op = "github.delete_repo" /\ ans = "normal" THEN [cloud EXCEPT !.repo = FALSE] ELSE cloud
        /\ IF ans = "raise" THEN Crash
           ELSE /\ logs' = Append(logs, GithubReport(op, ans, cloud.repo))
                /\ tdPc' = "apigw"
    /\ UNCHANGED <<apiVars, workers, tdArgs, run, locals>>

\* lines 87-90 and 98-99: get_apis, whose ClientError ends the gateway step
GetApis ==
    /\ tdPc = "apigw"
    /\ \E ans \in Answers :
        /\ Faulty(ans)
        /\ calls' = Append(calls, Called("apigw.get_apis", {}))
        /\ CASE ans = "raise" -> Crash /\ locals' = locals
             [] ans = "error" -> /\ logs' = Append(logs, Report("warning", "apigw", "failed"))
                                 /\ tdPc' = "lambda"
                                 /\ locals' = locals
             [] OTHER -> /\ logs' = logs
                         /\ tdPc' = IF cloud.apis = <<>> THEN "lambda" ELSE "apigw_loop"
                         /\ locals' = [locals EXCEPT !.items = cloud.apis]
    /\ UNCHANGED <<apiVars, workers, tdArgs, cloud, run>>

\* line 91: the for loop goes on while items are left
NextApi(rest) == IF rest = <<>> THEN "lambda" ELSE "apigw_loop"

\* lines 93-96: what the loop does with a matching item
ApigwOp(dry_run) == IF dry_run THEN "none" ELSE "apigw.delete_api"

\* lines 91-99: one iteration of the loop over the listed items
ApiLoop ==
    /\ tdPc = "apigw_loop"
    /\ LET api == Head(locals.items)
           rest == Tail(locals.items)
           op == ApigwOp(tdArgs.dry_run)
       IN  CASE api.Name # ApiNameOf(FunctionName) ->
                    /\ tdPc' = NextApi(rest)
                    /\ locals' = [locals EXCEPT !.items = rest]
                    /\ UNCHANGED <<cloud, calls, logs, faults>>
             [] api.Name = ApiNameOf(FunctionName) /\ op = "none" ->
                    /\ logs' = Append(logs, Report("info", "apigw", "would_delete"))
                    /\ tdPc' = NextApi(rest)
                    /\ locals' = [locals EXCEPT !.items = rest]
                    /\ UNCHANGED <<cloud, calls, faults>>
             [] OTHER ->
                    \E ans \in Answers :
                        /\ Faulty(ans)
                        /\ calls' = Append(calls, Called(op, {api.ApiId}))
                        /\ cloud' = IF ans = "normal" THEN [cloud EXCEPT !.apis = Without(cloud.apis, api)] ELSE cloud
                        /\ CASE ans = "raise" -> Crash /\ locals' = locals
                             [] ans = "error" -> /\ logs' = Append(logs, Report("warning", "apigw", "failed"))
                                                 /\ tdPc' = "lambda"
                                                 /\ locals' = locals
                             [] OTHER -> /\ logs' = Append(logs, Report("info", "apigw", "deleted"))
                                         /\ tdPc' = NextApi(rest)
                                         /\ locals' = [locals EXCEPT !.items = rest]
    /\ UNCHANGED <<apiVars, workers, tdArgs, run>>

\* what the except ClientError blocks of teardown_aws log: missing names
\* ResourceNotFoundException or NoSuchEntity, anything else is a warning
AwsFailure(kind, ans) ==
    IF ans = "normal" THEN Report("info", kind, "already_deleted") ELSE Report("warning", kind, "failed")

\* lines 104-108 with the test of dry_run lost
LambdaOpIgnoringDryRun(dry_run) == "lambda.delete_function"

\* lines 104-108
LambdaOp(dry_run) == IF dry_run THEN "lambda.get_function" ELSE "lambda.delete_function"

\* lines 101-114
TeardownLambda ==
    /\ tdPc = "lambda"
    /\ \E ans \in Answers :
        LET op == LambdaOp(tdArgs.dry_run) IN
        /\ Faulty(ans)
        /\ calls' = Append(calls, Called(op, {}))
        /\ cloud' = IF op = "lambda.delete_function" /\ ans = "normal" THEN [cloud EXCEPT !.function = FALSE] ELSE cloud
        /\ CASE ans = "raise" -> Crash
             [] ans = "normal" /\ cloud.function ->
                    /\ logs' = Append(logs, Report("info", "function", IF op = "lambda.get_function" THEN "would_delete" ELSE "deleted"))
                    /\ tdPc' = "role"
             [] OTHER ->
                    /\ logs' = Append(logs, AwsFailure("function", ans))
                    /\ tdPc' = "role"
    /\ UNCHANGED <<apiVars, workers, tdArgs, run, locals>>

\* lines 120-125: the first call of the role step
RoleOp(dry_run) == IF dry_run THEN "iam.get_role" ELSE "iam.list_attached_role_policies"

\* NextPolicy with the loop left after its first policy
NextPolicyFirstOnly(rest) == "iam_delete"

\* line 126: the for loop over the attached policies, then line 128
NextPolicy(rest) == IF rest = <<>> THEN "iam_delete" ELSE "iam_detach"

\* lines 117-125 and 130-134
TeardownRole ==
    /\ tdPc = "role"
    /\ \E ans \in Answers :
        LET op == RoleOp(tdArgs.dry_run) IN
        /\ Faulty(ans)
        /\ calls' = Append(calls, Called(op, {}))
        /\ CASE ans = "raise" -> Crash /\ locals' = locals
             [] ans = "normal" /\ cloud.role /\ op = "iam.get_role" ->
                    /\ logs' = Append(logs, Report("info", "role", "would_delete"))
                    /\ tdPc' = "loggroup"
                    /\ locals' = locals
             [] ans = "normal" /\ cloud.role /\ op # "iam.get_role" ->
                    /\ logs' = logs
                    /\ tdPc' = NextPolicy(cloud.policies)
                    /\ locals' = [locals EXCEPT !.policies = cloud.policies]
             [] OTHER ->
                    /\ logs' = Append(logs, AwsFailure("role", ans))
                    /\ tdPc' = "loggroup"
                    /\ locals' = locals
    /\ UNCHANGED <<apiVars, workers, tdArgs, cloud, run>>

\* lines 126-127 and 130-134: one iteration of the detach loop
DetachPolicy ==
    /\ tdPc = "iam_detach"
    /\ \E ans \in Answers :
        LET p == Head(locals.policies)
            rest == Tail(locals.policies)
        IN  /\ Faulty(ans)
            /\ calls' = Append(calls, Called("iam.detach_role_policy", {p}))
            /\ cloud' = IF ans = "normal" THEN [cloud EXCEPT !.policies = Without(cloud.policies, p)] ELSE cloud
            /\ CASE ans = "raise" -> Crash /\ locals' = locals
                 [] ans = "error" -> /\ logs' = Append(logs, Report("warning", "role", "failed"))
                                     /\ tdPc' = "loggroup"
                                     /\ locals' = locals
                 [] OTHER -> /\ logs' = logs
                             /\ tdPc' = NextPolicy(rest)
                             /\ locals' = [locals EXCEPT !.policies = rest]
    /\ UNCHANGED <<apiVars, workers, tdArgs, run>>

\* lines 128-134: IAM refuses (DeleteConflict) a role that has policies attached
DeleteRole ==
    /\ tdPc = "iam_delete"
    /\ \E ans \in Answers :
        LET deleted == ans = "normal" /\ cloud.role /\ cloud.policies = <<>> IN
        /\ Faulty(ans)
        /\ calls' = Append(calls, Called("iam.delete_role", {}))
        /\ cloud' = IF deleted THEN [cloud EXCEPT !.role = FALSE] ELSE cloud
        /\ CASE ans = "raise" -> Crash
             [] deleted -> logs' = Append(logs, Report("info", "role", "deleted")) /\ tdPc' = "loggroup"
             [] ans = "normal" /\ ~cloud.role -> logs' = Append(logs, Report("info", "role", "already_deleted")) /\ tdPc' = "loggroup"
             [] OTHER -> logs' = Append(logs, Report("warning", "role", "failed")) /\ tdPc' = "loggroup"
    /\ UNCHANGED <<apiVars, workers, tdArgs, run, locals>>

\* lines 140-144
LogGroupOp(dry_run) == IF dry_run THEN "logs.describe_log_groups" ELSE "logs.delete_log_group"

\* lines 136-150: describe_log_groups answers with a list, empty when no
\* group has the prefix, so the dry run reports the group either way
TeardownLogGroup ==
    /\ tdPc = "loggroup"
    /\ \E ans \in Answers :
        LET op == LogGroupOp(tdArgs.dry_run) IN
        /\ Faulty(ans)
        /\ calls' = Append(calls, Called(op, {}))
        /\ cloud' = IF op = "logs.delete_log_group" /\ ans = "normal" THEN [cloud EXCEPT !.loggroup = FALSE] ELSE cloud
        /\ CASE ans = "raise" -> Crash
             [] ans = "normal" /\ op = "logs.describe_log_groups" ->
                    logs' = Append(logs, Report("info", "loggroup", "would_delete")) /\ tdPc' = "complete"
             [] ans = "normal" /\ op # "logs.describe_log_groups" /\ cloud.loggroup ->
                    logs' = Append(logs, Report("info", "loggroup", "deleted")) /\ tdPc' = "complete"
             [] OTHER ->
                    logs' = Append(logs, AwsFailure("loggroup", ans)) /\ tdPc' = "complete"
    /\ UNCHANGED <<apiVars, workers, tdArgs, run, locals>>

\* line 196
Complete ==
    /\ tdPc = "complete"
    /\ logs' = Append(logs, Report("info", "run", "complete"))
    /\ tdPc' = "done"
    /\ UNCHANGED <<apiVars, workers, tdArgs, cloud, calls, run, faults, locals>>

\* the same command line once more, after a run that reached line 196
Rerun ==
    /\ tdPc = "done" /\ run = "first"
    /\ run' = "second"
    /\ tdPc' = "main"
    /\ calls' = <<>>
    /\ logs' = <<>>
    /\ locals' = NoLocals
    /\ UNCHANGED <<apiVars, workers, tdArgs, cloud, faults>>

NextTeardown ==
    \/ ParseArgs
    \/ FindWorkspaceId
    \/ Announce
    \/ TeardownPostman
    \/ TeardownGithub
    \/ GetApis
    \/ ApiLoop
    \/ TeardownLambda
    \/ TeardownRole
    \/ DetachPolicy
    \/ DeleteRole
    \/ TeardownLogGroup
    \/ Complete
    \/ Rerun

SpecTeardown == TdInit /\ [][NextTeardown]_vars

-----------------------------------------------------------------------------
(* Claims about the API *)

\* the total value a list of trades leaves, replayed from 0 in creation order
RECURSIVE ReplayTotal(_)
ReplayTotal(ts) ==
    IF ts = <<>> THEN 0
    ELSE LET before == ReplayTotal(SubSeq(ts, 1, Len(ts) - 1))
             last == ts[Len(ts)]
         IN  IF last.side = "buy" THEN before + last.total_amount
             ELSE IF before - last.total_amount < 0 THEN 0 ELSE before - last.total_amount

\* the sequences that list every element of the set S once
Orderings(S) ==
    {f \in [1..Cardinality(S) -> S] : \A i, j \in 1..Cardinality(S) : i # j => f[i] # f[j]}

\* C1: every stored portfolio's total value is non-negative and is what replaying
\* its trades from 0 in creation order gives (a buy adds the trade's amount, a sell
\* subtracts it, floored at 0); so a step that leaves a portfolio's trade list
\* alone, a portfolio update in particular, leaves its total value alone
C1_TotalValueIsReplayOfTrades ==
    \A i \in DOMAIN portfolios :
        /\ portfolios[i].val.total_value >= 0
        /\ portfolios[i].val.total_value = ReplayTotal(TradesOf(trades, portfolios[i].key))

\* a portfolio that bought, then sold more than it held, and was floored at 0
C1_Witness ==
    \E i \in DOMAIN portfolios :
        LET ts == TradesOf(trades, portfolios[i].key)
        IN  /\ Len(ts) = 2
            /\ ts[1].side = "buy" /\ ts[2].side = "sell"
            /\ ts[2].total_amount > ts[1].total_amount
            /\ portfolios[i].val.total_value = 0

\* C2: trade creations that overlap on one portfolio are serialized: once every
\* worker has returned, each accepted trade is in its portfolio's trade list and
\* the portfolio's total value is what applying its trades one after the other,
\* in some order, gives (no update is lost)
C2_ConcurrentTradesSerialized ==
    (\A w \in Workers : workers[w].pc = "idle") =>
        /\ Cardinality(AllTrades(trades)) = writes - Len(portfolios)
        /\ \A i \in DOMAIN portfolios :
            LET ts == TradesOf(trades, portfolios[i].key)
            IN  \E order \in Orderings(DOMAIN ts) :
                    portfolios[i].val.total_value = ReplayTotal([a \in DOMAIN order |-> ts[order[a]]])

\* seq[offset : offset + limit] for offset >= 0 and limit >= 1, said directly
Window(seq, offset, limit) == [i \in 1..Min(limit, Max(0, Len(seq) - offset)) |-> seq[offset + i]]

\* C7: a portfolio listing reports the requested limit clamped to [1,100] and
\* the requested offset clamped to >= 0; its total is the number of portfolios
\* that match the status filter; its items are the window [offset, offset+limit)
\* of the matching portfolios in an order of creation time descending, so there
\* are min(limit, max(0, total - offset)) of them
C7_PortfolioListingPages ==
    request.op = "list_portfolios" =>
        LET wantLimit == IF request.args.limit.kind = "int" THEN request.args.limit.val ELSE DefaultLimit
            wantOffset == IF request.args.offset.kind = "int" THEN request.args.offset.val ELSE 0
            limit == IF wantLimit < 1 THEN 1 ELSE IF wantLimit > 100 THEN 100 ELSE wantLimit
            offset == IF wantOffset < 0 THEN 0 ELSE wantOffset
            filter == request.args.status
            matching == {i \in DOMAIN portfolios :
                            filter \in {NoneStr, ""} \/ portfolios[i].val.status = filter}
            body == response.body
        IN  /\ response.status = 200
            /\ body.limit = limit
            /\ body.offset = offset
            /\ body.total = Cardinality(matching)
            /\ Len(body.portfolios) = Min(limit, Max(0, body.total - offset))
            /\ \E order \in Orderings(matching) :
                /\ \A a, b \in DOMAIN order :
                    a < b => portfolios[order[a]].val.created_at >= portfolios[order[b]].val.created_at
                /\ body.portfolios =
                     Window([a \in DOMAIN order |-> PortfolioToDict(portfolios[order[a]].val)], offset, limit)

\* three portfolios listed two to a page
C7_Witness ==
    /\ request.op = "list_portfolios"
    /\ request.args.limit = IntArg(2)
    /\ request.args.offset = IntArg(-1)
    /\ response.body.total = 3
    /\ Len(response.body.portfolios) = 2

\* C8: a trade listing of an existing portfolio pages like the portfolio
\* listing: limit clamped to [1,100], offset clamped to >= 0 and reported so,
\* total the number of trades that match the status filter, items the window
\* [offset, offset+limit) of them in an order of initiation time descending
C8_TradeListingPages ==
    (request.op = "list_trades" /\ request.pid \in Keys(portfolios)) =>
        LET wantLimit == IF request.args.limit.kind = "int" THEN request.args.limit.val ELSE DefaultLimit
            wantOffset == IF request.args.offset.kind = "int" THEN request.args.offset.val ELSE 0
            limit == IF wantLimit < 1 THEN 1 ELSE IF wantLimit > 100 THEN 100 ELSE wantLimit
            offset == IF wantOffset < 0 THEN 0 ELSE wantOffset
            filter == request.args.status
            ts == TradesOf(trades, request.pid)
            matching == {i \in DOMAIN ts : filter \in {NoneStr, ""} \/ ts[i].status = filter}
            body == response.body
        IN  /\ response.status = 200
            /\ body.limit = limit
            /\ body.offset = offset
            /\ body.total = Cardinality(matching)
            /\ \E order \in Orderings(matching) :
                /\ \A a, b \in DOMAIN order :
                    a < b => ts[order[a]].initiated_at >= ts[order[b]].initiated_at
                /\ body.trades = Window([a \in DOMAIN order |-> TradeToDict(ts[order[a]])], offset, limit)

\* the fields of a stored portfolio that no update body can name
FixedFields == {"portfolio_id", "client_id", "advisor_id", "total_value", "currency", "created_at"}
\* the stored field each optional body field sets
OptionalFields ==
    {<<"investmentObjective", "investment_objective">>, <<"riskTolerance", "risk_tolerance">>,
     <<"status", "status">>, <<"benchmarkIndex", "benchmark_index">>}

\* C9: a successful portfolio update changes only the fields its body names and
\* the update timestamp, which does not go back; the identifier, client,
\* advisor, total value, currency and creation timestamp, every other portfolio
\* and the trade store stay as they were
C9_UpdateChangesOnlyNamedFields ==
    [][(request'.op = "update_portfolio" /\ response'.status = 200) =>
        LET obj == request'.body.obj
            old == Get(portfolios, request'.pid)
            new == Get(portfolios', request'.pid)
        IN  /\ trades' = trades
            /\ DOMAIN portfolios' = DOMAIN portfolios
            /\ \A i \in DOMAIN portfolios :
                /\ portfolios'[i].key = portfolios[i].key
                /\ portfolios[i].key # request'.pid => portfolios'[i] = portfolios[i]
            /\ \A f \in FixedFields : new[f] = old[f]
            /\ new.portfolio_name = obj.portfolioName
            /\ \A pair \in OptionalFields :
                new[pair[2]] = IF pair[1] \in DOMAIN obj THEN obj[pair[1]] ELSE old[pair[2]]
            /\ new.updated_at >= old.updated_at
            /\ response'.body = PortfolioToDict(new)]_vars

\* a closed portfolio that holds value, renamed by a body with the name alone
C9_Witness ==
    /\ request.op = "update_portfolio"
    /\ response.status = 200
    /\ DOMAIN request.body.obj = {"portfolioName"}
    /\ \E i \in DOMAIN portfolios :
        /\ portfolios[i].key = request.pid
        /\ portfolios[i].val.portfolio_name = "Main"
        /\ portfolios[i].val.investment_objective = "growth"
        /\ portfolios[i].val.total_value > 0

ScopedOps == {"get_portfolio", "update_portfolio", "list_trades", "initiate_trade", "get_trade", "get_portfolio_performance"}

\* C10: a portfolio-scoped request whose portfolio id is no key of the portfolio
\* store is answered 404 whatever its trade id, query string or body, and
\* leaves both stores as they were
C10_UnknownPortfolioIs404 ==
    [][(request'.op \in ScopedOps /\ request'.pid \notin Keys(portfolios)) =>
        /\ response'.status = 404
        /\ response'.body.error = "not_found"
        /\ portfolios' = portfolios
        /\ trades' = trades]_vars

\* a well-formed order sent to an unknown portfolio while another one exists
C10_Witness ==
    /\ request.op = "initiate_trade"
    /\ request.pid \notin Keys(portfolios)
    /\ ~BodyFalsy(request.body) /\ TradeInitiateErrors(request.body.obj) = {}
    /\ response.status = 404
    /\ portfolios # <<>>

\* the handlers that read a JSON body, and what their schema reports for an object
BodyOps == {"initiate_portfolio", "update_portfolio", "initiate_trade"}
SchemaErrors(op, obj) ==
    CASE op = "initiate_portfolio" -> PortfolioInitiateErrors(obj)
      [] op = "update_portfolio" -> PortfolioUpdateErrors(obj)
      [] OTHER -> TradeInitiateErrors(obj)

\* C11: portfolio create, and update and trade create on an existing
\* portfolio, answer a missing or non-JSON body with the generic bad-request
\* error and every JSON object the schema rejects, the empty object included,
\* with the validation error carrying the per-field messages; in both cases
\* neither store changes
C11_BodyErrorsDistinguished ==
    [][(request'.op \in BodyOps /\ (request'.op = "initiate_portfolio" \/ request'.pid \in Keys(portfolios))) =>
        LET body == request'.body
            errors == SchemaErrors(request'.op, body.obj)
        IN  /\ body.kind = "none" =>
                /\ response'.status = 400
                /\ response'.body.error = "bad_request"
                /\ portfolios' = portfolios /\ trades' = trades
            /\ (body.kind = "object" /\ errors # {}) =>
                /\ response'.status = 400
                /\ response'.body.error = "validation_error"
                /\ response'.body.details = errors
                /\ portfolios' = portfolios /\ trades' = trades]_vars

\* the requests that assign to fields of the portfolio they name
MutatingRequests == {"update_portfolio", "initiate_trade"}

\* C12: create answers with the representation of the portfolio it stored,
\* under that portfolio's own identifier; only an update of, or a trade on,
\* that portfolio changes the stored object; a fetch by id answers with the
\* representation of the stored object.  So a fetch after create with no
\* mutation between returns what create returned.  Every stored portfolio is
\* keyed by its identifier and has updatedAt >= createdAt, and no step removes
\* a portfolio or changes its identifier or createdAt
C12_CreateThenGetIdentical ==
    [][/\ \A i \in DOMAIN portfolios' :
            /\ portfolios'[i].key = portfolios'[i].val.portfolio_id
            /\ portfolios'[i].val.updated_at >= portfolios'[i].val.created_at
       /\ \A i \in DOMAIN portfolios :
            /\ i \in DOMAIN portfolios'
            /\ portfolios'[i].key = portfolios[i].key
            /\ portfolios'[i].val.portfolio_id = portfolios[i].val.portfolio_id
            /\ portfolios'[i].val.created_at = portfolios[i].val.created_at
            /\ portfolios'[i] # portfolios[i] =>
                (request'.op \in MutatingRequests /\ request'.pid = portfolios[i].key)
       /\ (request'.op = "initiate_portfolio" /\ response'.status = 201) =>
            /\ response'.body.portfolioId \in Keys(portfolios') \ Keys(portfolios)
            /\ response'.body = PortfolioToDict(Get(portfolios', response'.body.portfolioId))
       /\ (request'.op = "get_portfolio" /\ request'.pid \in Keys(portfolios)) =>
            /\ response'.status = 200
            /\ response'.body = PortfolioToDict(Get(portfolios, request'.pid))
            /\ portfolios' = portfolios]_vars

\* a portfolio fetched unchanged since its creation, after the clock moved on
\* and another portfolio was created and traded on
C12_Witness ==
    /\ request.op = "get_portfolio"
    /\ response.status = 200
    /\ response.body.updatedAt = response.body.createdAt
    /\ response.body.createdAt # IsoFormat(now)
    /\ \E i \in DOMAIN portfolios :
        /\ portfolios[i].key # request.pid
        /\ portfolios[i].val.total_value > 0

-----------------------------------------------------------------------------
(* Claims about teardown *)

\* the request that deletes a resource of each kind
DeleteOps ==
    [workspace |-> "postman.delete_workspace", repo |-> "github.delete_repo", apigw |-> "apigw.delete_api",
     function |-> "lambda.delete_function", role |-> "iam.delete_role", loggroup |-> "logs.delete_log_group"]
Kinds == DOMAIN DeleteOps
MutatingOps == {DeleteOps[k] : k \in Kinds} \cup {"iam.detach_role_policy"}
ReadOps ==
    {"postman.list_workspaces", "postman.get_workspace", "github.get_repo", "apigw.get_apis",
     "lambda.get_function", "iam.get_role", "iam.list_attached_role_policies", "logs.describe_log_groups"}

Attempts(kind) == Cardinality({i \in DOMAIN calls : calls[i].op = DeleteOps[kind]})
Reports(kind) == {logs[i].outcome : i \in {j \in DOMAIN logs : logs[j].kind = kind}}
\* every call so far was answered as the existence of its resource dictates
NoFailure == faults = 0
FromResultFile == tdArgs.mode = "result" /\ tdArgs.workspace_id = WorkspaceId

\* C3: a non-dry run from a result file naming workspace, repository and
\* function, with every call answered normally, ends having issued exactly one
\* delete request per resource kind and having reported each kind as deleted
\* or as already deleted, whichever of the resources existed
C3_OneDeletePerKind ==
    (FromResultFile /\ ~tdArgs.dry_run /\ NoFailure /\ tdPc = "done") =>
        \A kind \in Kinds :
            /\ Attempts(kind) = 1
            /\ Reports(kind) # {}
            /\ Reports(kind) \subseteq {"deleted", "already_deleted"}

\* C4: the second non-dry run from the same result file, after a first run
\* that deleted everything, ends at line 196 (never by an exception) and has
\* reported every resource kind as already deleted
C4_SecondRunAllAlreadyAbsent ==
    (FromResultFile /\ ~tdArgs.dry_run /\ NoFailure /\ run = "second" /\ tdPc \in {"done", "crashed"}) =>
        /\ tdPc = "done"
        /\ \A kind \in Kinds : Reports(kind) = {"already_deleted"}

\* the calls one of which is made when the step of a resource kind is attempted
StepOps(kind) ==
    CASE kind = "workspace" -> {"postman.get_workspace", "postman.delete_workspace"}
      [] kind = "repo" -> {"github.get_repo", "github.delete_repo"}
      [] kind = "apigw" -> {"apigw.get_apis"}
      [] kind = "function" -> {"lambda.get_function", "lambda.delete_function"}
      [] kind = "role" -> {"iam.get_role", "iam.list_attached_role_policies"}
      [] OTHER -> {"logs.describe_log_groups", "logs.delete_log_group"}
Attempted(kind) == \E i \in DOMAIN calls : calls[i].op \in StepOps(kind)

\* C5: whatever the calls answer, a run never ends by an exception, and when
\* it has logged 'Teardown complete' the step of every resource kind was
\* attempted (the workspace step whenever a workspace id is known)
C5_FailuresNeverStopTheRun ==
    /\ tdPc # "crashed"
    /\ tdPc = "done" => \A kind \in Kinds : (kind # "workspace" \/ locals.workspace_id # "") => Attempted(kind)

\* C6: in a dry run every call sent to an external service is a read or
\* lookup; no delete and no policy detach is ever sent
C6_DryRunSendsNoMutatingCall ==
    tdArgs.dry_run => \A i \in DOMAIN calls : calls[i].op \in ReadOps /\ calls[i].op \notin MutatingOps

\* a dry run over resources that all exist reached line 196 having reported all six kinds
C6_Witness ==
    /\ tdArgs.dry_run /\ tdPc = "done"
    /\ cloud.workspace /\ cloud.repo /\ cloud.function /\ cloud.role /\ cloud.loggroup
    /\ \A kind \in Kinds : Reports(kind) = {"would_delete"}
    /\ Len(calls) >= Cardinality(Kinds)

\* the calls of a non-dry run in the order the script makes them
CallOrder ==
    << {"postman.list_workspaces"}, {"postman.delete_workspace"}, {"github.delete_repo"},
       {"apigw.get_apis", "apigw.delete_api"}, {"lambda.delete_function"},
       {"iam.list_attached_role_policies"}, {"iam.detach_role_policy"}, {"iam.delete_role"},
       {"logs.delete_log_group"} >>
Rank(op) == CHOOSE r \in DOMAIN CallOrder : op \in CallOrder[r]
\* the calls a loop may repeat, once per listed item
LoopOps == {"apigw.delete_api", "iam.detach_role_policy"}
CountOf(op) == Cardinality({i \in DOMAIN calls : calls[i].op = op})

\* C13: the calls of a non-dry run come in the order workspace delete,
\* repository delete, API gateway (listing, then deletes), function delete,
\* role step (listing, detaches, role delete), log group delete, none of them
\* twice except a loop's call per item; and once the role delete has been
\* issued no policy is attached to the role: each listed policy was detached
\* by an earlier call
C13_CallsInFixedOrder ==
    ~tdArgs.dry_run =>
        /\ \A i, j \in DOMAIN calls :
            i < j =>
                /\ calls[i].op \in UNION {CallOrder[r] : r \in DOMAIN CallOrder}
                /\ Rank(calls[i].op) <= Rank(calls[j].op)
                /\ Rank(calls[i].op) = Rank(calls[j].op) => (calls[j].op \in LoopOps /\ calls[i].args # calls[j].args)
        /\ CountOf("iam.delete_role") > 0 =>
            /\ cloud.policies = <<>>
            /\ locals.policies = <<>>

\* a run that deleted every kind of resource, two gateway APIs and a role with two policies among them
C13_Witness ==
    /\ ~tdArgs.dry_run /\ tdPc = "done"
    /\ \A kind \in Kinds : Attempts(kind) >= 1 /\ "deleted" \in Reports(kind)
    /\ CountOf("apigw.delete_api") >= 2
    /\ CountOf("iam.detach_role_policy") >= 2

=============================================================================
